---- MODULE Spec2Model ----
(***************************************************************************)
(* User-management workflows of node-temporal-postgres-boilerplate.        *)
(*                                                                         *)
(* The model holds the `users` table, the executions the dispatch layer    *)
(* has submitted to the execution engine, the calls of the dispatch        *)
(* functions, the worker process, and the clock that Date.now() and the    *)
(* store's timestamps read.  One action per dispatch function and per      *)
(* activity; the workflow code that runs between two activity calls has no *)
(* effect of its own and is folded into the activity's completion.         *)
(***************************************************************************)
EXTENDS Integers, Sequences, FiniteSets, TLC

(***************************************************************************)
(* Bounds of the model.                                                    *)
(***************************************************************************)
MaxExec == 2
MaxRunning == 2
MaxClock == 1
MaxAttempt == 3
MaxRetry == 6
MaxRows == 3
MaxSeed == 2
MaxCalls == 2
MaxDispatchAttempt == 2
MaxSinks == 3
MaxLogCalls == 2
MaxLiveAttempt == 2

(***************************************************************************)
(* Input domains.                                                          *)
(***************************************************************************)
Emails == {"e1"}
Mobiles == {"m1", "m2"}
Ids == 1..2

\* JavaScript null: what findOne resolves to when no row matches.
Null == [null |-> TRUE]

\* A workflow result that has not been produced yet.
NoResult == [code |-> 0]

\* deleted_on of a live row (paranoid model, column default null).
NullDate == -1

CreateInputs == [name : {"n1"}, email : Emails, mobile : Mobiles]

\* Partial userData of an update: any subset of the updatable fields.
UpdateInputs ==
  {[name |-> "n2"], [mobile |-> "m1"]}

\* Pagination parameters; a missing field is an argument left undefined.
ListInputs ==
  {[x \in {} |-> 0], [limit |-> 1], [offset |-> 1], [limit |-> 1, offset |-> 1]}

\* Errors User.create can reject with: users.id carries a unique constraint,
\* and any call can lose its connection.  The mobile column has no constraint,
\* so an insert is never rejected because of its mobile.
StoreErrors == {"SequelizeUniqueConstraintError", "SequelizeConnectionError"}

\* The task queue name both the dispatch functions and the worker import
\* from config/environment/shared.js.
USER_QUEUE == "USER_QUEUE"

VARIABLES users, seq, clock, wf, calls, worker, logger

vars == <<users, seq, clock, wf, calls, worker, logger>>

(***************************************************************************)
(* Store: the users table behind the paranoid, timestamped User model.     *)
(***************************************************************************)

\* Rows a normal query sees: paranoid models filter deleted_on IS NULL.
Live(tbl) == {r \in tbl : r.deleted_on = NullDate}

\* User.findOne({attributes, where, raw: true}): one matching row projected
\* on the attributes, or null.  No ORDER BY: any matching row may be returned.
FindOne(tbl, attrs, column, value) ==
  LET m == {r \in Live(tbl) : r[column] = value}
  IN  IF m = {} THEN {Null} ELSE {[a \in attrs |-> r[a]] : r \in m}

\* User.create({name, email, mobile}): the row the insert produces.
NewRow(id, now, d) ==
  [id |-> id, name |-> d.name, email |-> d.email, mobile |-> d.mobile,
   suspend_status |-> FALSE, created_on |-> now, updated_on |-> now,
   deleted_on |-> NullDate]

\* Faulty variant of UpdateRows: the update also rewrites created_on.
UpdateRowsTouchingCreatedOn(tbl, id, now, values) ==
  {IF r.id = id /\ r.deleted_on = NullDate
     THEN [f \in DOMAIN r |->
             IF f \in {"updated_on", "created_on"} THEN now
             ELSE IF f \in DOMAIN values THEN values[f] ELSE r[f]]
     ELSE r : r \in tbl}

\* User.update(values, {where: {id}}): every live row with that id takes the
\* given values, and updated_on is set to the current time.
UpdateRows(tbl, id, now, values) ==
  {IF r.id = id /\ r.deleted_on = NullDate
     THEN [f \in DOMAIN r |->
             IF f = "updated_on" THEN now
             ELSE IF f \in DOMAIN values THEN values[f] ELSE r[f]]
     ELSE r : r \in tbl}

\* Sequences that list every element of S once.
Orderings(S) ==
  {s \in [1..Cardinality(S) -> S] : \A i, j \in 1..Cardinality(S) : s[i] = s[j] => i = j}

Min(a, b) == IF a < b THEN a ELSE b

\* User.findAll({limit, offset}): no ORDER BY, so the page is cut from some
\* ordering of the live rows.
FindAll(tbl, limit, offset) ==
  {SubSeq(o, offset + 1, Min(offset + limit, Len(o))) : o \in Orderings(Live(tbl))}

(***************************************************************************)
(* Activity options declared by the workflows: proxyActivities is given    *)
(* startToCloseTimeout only.  With no `retry` key the engine applies its    *)
(* default policy, whose maximumAttempts is 0, meaning unlimited.          *)
(***************************************************************************)
maximumAttempts == 0

\* The engine's retry rule for a failed attempt number `attempt`.
ShouldRetry(attempt) == maximumAttempts = 0 \/ attempt < maximumAttempts

(***************************************************************************)
(* Workflow code between activity calls (pure, replayable).                *)
(***************************************************************************)

\* Faulty variant of createUserWorkflowDuplicate: the duplicate's id is left out.
createUserWorkflowDuplicateNoId(duplicate) ==
  [code |-> 409, message |-> "Duplicate mobile number found. Possible fraud."]

\* createUserWorkflow after `await checkDuplicateByMobileActivity(mobile)`.
createUserWorkflowDuplicate(duplicate) ==
  [code |-> 409, id |-> duplicate.id,
   message |-> "Duplicate mobile number found. Possible fraud."]

\* Faulty variant of createUserWorkflowCreated: the outcome carries 200.
createUserWorkflowCreated200(result) ==
  [code |-> 200, message |-> "Your account created successfully.",
   id |-> result.id, user |-> result]

\* createUserWorkflow after `await createUserActivity(userData)`.
createUserWorkflowCreated(result) ==
  [code |-> 201, message |-> "Your account created successfully.",
   id |-> result.id, user |-> result]

\* updateUserWorkflow after `await updateUserActivity({id, userData})`.
updateUserWorkflowResult(result) ==
  [code |-> 200, success |-> result.success, id |-> result.id]

\* Faulty variant of getUserWorkflowResult: the `if (!user)` branch is missing.
getUserWorkflowResultNoCheck(user) == [code |-> 200, user |-> user]

\* getUserWorkflow after `await getUserActivity(id)`.
getUserWorkflowResult(user) ==
  IF user = Null
    THEN [code |-> 404, message |-> "User not found", user |-> Null]
    ELSE [code |-> 200, user |-> user]

\* getAllUsersWorkflow after `await getAllUsersActivity({limit, offset})`.
getAllUsersWorkflowResult(page) == [code |-> 200, users |-> page]

(***************************************************************************)
(* Default parameters `{ limit = 100, offset = 0 }`, written out at the    *)
(* dispatch function, the workflow and the activity.                       *)
(***************************************************************************)
DefaultLimit == 100
DefaultOffset == 0

\* Destructuring with defaults: a default applies to a missing field only.
Destructure(p, limit, offset) ==
  [limit |-> IF "limit" \in DOMAIN p THEN p.limit ELSE limit,
   offset |-> IF "offset" \in DOMAIN p THEN p.offset ELSE offset]

\* Faulty variant of startGetAllUsersParams: the repository's page size of 10.
startGetAllUsersParams10(p) == Destructure(p, 10, DefaultOffset)

\* async function startGetAllUsers({ limit = 100, offset = 0 })
startGetAllUsersParams(p) == Destructure(p, DefaultLimit, DefaultOffset)

\* async function getAllUsersWorkflow({ limit = 100, offset = 0 })
getAllUsersWorkflowParams(p) == Destructure(p, DefaultLimit, DefaultOffset)

\* async function getAllUsersActivity({ limit = 100, offset = 0 })
getAllUsersActivityParams(p) == Destructure(p, DefaultLimit, DefaultOffset)

(***************************************************************************)
(* The workflow functions as the engine replays them: given the input and   *)
(* the results recorded so far, the activity calls issued and the outcome   *)
(* (NoResult while the next call is pending).  `env` is what the replaying  *)
(* worker could read besides: the clock and the table.                      *)
(***************************************************************************)
Call(activity, args) == [activity |-> activity, args |-> args]

createUserWorkflow(userData, hist) ==
  LET check == Call("checkDuplicateByMobileActivity", userData.mobile)
      create == Call("createUserActivity", userData)
  IN  IF Len(hist) = 0 THEN [calls |-> <<check>>, outcome |-> NoResult]
      ELSE IF hist[1] # Null
        THEN [calls |-> <<check>>, outcome |-> createUserWorkflowDuplicate(hist[1])]
      ELSE IF Len(hist) = 1 THEN [calls |-> <<check, create>>, outcome |-> NoResult]
      ELSE [calls |-> <<check, create>>, outcome |-> createUserWorkflowCreated(hist[2])]

updateUserWorkflow(params, hist) ==
  [calls |-> <<Call("updateUserActivity", [id |-> params.id, userData |-> params.userData])>>,
   outcome |-> IF Len(hist) = 0 THEN NoResult ELSE updateUserWorkflowResult(hist[1])]

getUserWorkflow(id, hist) ==
  [calls |-> <<Call("getUserActivity", id)>>,
   outcome |-> IF Len(hist) = 0 THEN NoResult ELSE getUserWorkflowResult(hist[1])]

getAllUsersWorkflow(params, hist) ==
  [calls |-> <<Call("getAllUsersActivity", getAllUsersWorkflowParams(params))>>,
   outcome |-> IF Len(hist) = 0 THEN NoResult ELSE getAllUsersWorkflowResult(hist[1])]

workflowCode(type, input, hist) ==
  CASE type = "createUserWorkflow" -> createUserWorkflow(input, hist)
    [] type = "updateUserWorkflow" -> updateUserWorkflow(input, hist)
    [] type = "getUserWorkflow" -> getUserWorkflow(input, hist)
    [] type = "getAllUsersWorkflow" -> getAllUsersWorkflow(input, hist)

\* Faulty variant of Replay: the outcome carries the time of the run.
ReplayStamped(type, input, hist, env) ==
  [calls |-> workflowCode(type, input, hist).calls,
   outcome |-> IF workflowCode(type, input, hist).outcome = NoResult THEN NoResult
               ELSE [code |-> workflowCode(type, input, hist).outcome.code, at |-> env.now]]

\* A run of the workflow function in environment `env`: the functions read
\* neither the clock nor the table nor a random source.
Replay(type, input, hist, env) == workflowCode(type, input, hist)

(***************************************************************************)
(* Activities: what each returns for a given table.                        *)
(***************************************************************************)
checkDuplicateByMobileActivity(tbl, mobile) ==
  FindOne(tbl, {"id", "mobile"}, "mobile", mobile)

createUserActivityResult(user) ==
  [id |-> user.id, name |-> user.name, email |-> user.email, mobile |-> user.mobile]

updateUserActivityResult(id) == [id |-> id, success |-> TRUE]

\* Faulty variant of getUserActivity: the where clause is missing.
getUserActivityAnyRow(tbl, id) ==
  IF Live(tbl) = {} THEN {Null}
  ELSE {[a \in {"id", "mobile", "name", "email"} |-> r[a]] : r \in Live(tbl)}

getUserActivity(tbl, id) ==
  FindOne(tbl, {"id", "mobile", "name", "email"}, "id", id)

getAllUsersActivity(tbl, p) ==
  FindAll(tbl, getAllUsersActivityParams(p).limit, getAllUsersActivityParams(p).offset)

(***************************************************************************)
(* Executions.                                                             *)
(***************************************************************************)
Execs == 1..Len(wf)

Running == {e \in Execs : wf[e].status = "running"}

\* Faulty variant of IdFree: the engine accepts every start.
IdAlwaysFree(wid) == TRUE

\* Temporal's workflow-id rule: a start is accepted unless an execution with
\* the same id is still running.
IdFree(wid) == \A e \in Running : wf[e].wid # wid

\* A submitted execution.  `input` is what the caller passed, `args` what the
\* dispatch function submitted; `duplicate` is the workflow's local variable;
\* `ins`, `pre`, `post` and `used` record what the execution's activities saw
\* and did in the store.
\* Faulty variant of NewExec: createUserWorkflow goes straight to
\* createUserActivity.
NewExecSkippingCheck(type, input, args, wid, pc, via) ==
  [type |-> type, input |-> input, args |-> args, wid |-> wid,
   pc |-> IF type = "createUserWorkflow" THEN "createUserActivity" ELSE pc,
   via |-> via, attempt |-> 1, status |-> "running", result |-> NoResult,
   err |-> "none", duplicate |-> Null, ins |-> {}, pre |-> {}, post |-> {},
   used |-> [limit |-> 0, offset |-> 0], done |-> <<>>, failures |-> 0,
   cmds |-> <<>>, hist |-> <<>>, taskQueue |-> USER_QUEUE]

\* `cmds` and `hist` are the execution's event history: the activity calls it
\* has had completed, with their arguments, and the results recorded for them.
\* `done` lists the activities the execution has completed, in order,
\* `failures` counts the failed attempts of the activity it is at, and
\* `taskQueue` is the queue the start named.
NewExec(type, input, args, wid, pc, via) ==
  [type |-> type, input |-> input, args |-> args, wid |-> wid, pc |-> pc,
   via |-> via, attempt |-> 1, status |-> "running", result |-> NoResult,
   err |-> "none", duplicate |-> Null, ins |-> {}, pre |-> {}, post |-> {},
   used |-> [limit |-> 0, offset |-> 0], done |-> <<>>, failures |-> 0,
   cmds |-> <<>>, hist |-> <<>>,
   taskQueue |-> USER_QUEUE]

\* No HTTP response sent yet.
NoResponse == [status |-> 0]

(***************************************************************************)
(* Calls of the dispatch functions.  Each function is                      *)
(*   client = await getClient(); workflowId = ...;                         *)
(*   handle = await client.workflow.start(type, {args, taskQueue,          *)
(*                                               workflowId});             *)
(*   return handle.result();                                               *)
(* with no try/catch and no loop.                                          *)
(***************************************************************************)
Calls == 1..Len(calls)

\* A call that has entered its dispatch function; `starts` counts the
\* workflow starts it has submitted, `handle` is the execution it awaits.
\* `response` is what the HTTP handler that made the call has sent.
NewCall(type, input) ==
  [type |-> type, input |-> input, wid |-> <<>>, pc |-> "getClient", handle |-> 0,
   starts |-> 0, value |-> NoResult, err |-> "none", response |-> NoResponse]

\* The call submits client.workflow.start under workflow-id `wid`.
Starts(call, wid) == [call EXCEPT !.wid = wid, !.starts = @ + 1, !.pc = "start"]

\* The start resolved with the handle of execution `h`; the call goes on to
\* await handle.result().
Accepted(call, h) == [call EXCEPT !.handle = h, !.pc = "result"]

\* Faulty variant of Rejects: the function submits the start once more before
\* it gives up.
RejectsAfterResubmitting(call, err) ==
  [call EXCEPT !.pc = "rejected", !.err = err, !.starts = @ + 1]

\* Faulty variant of Rejects: the function catches the error, logs it and
\* returns undefined.
RejectsSwallowed(call, err) == [call EXCEPT !.pc = "returned", !.err = err]

\* An awaited promise rejected: nothing catches it, so the function's own
\* promise rejects with the same error.
Rejects(call, err) == [call EXCEPT !.pc = "rejected", !.err = err]

\* Faulty variant of handleResult: the outcome is wrapped in an envelope.
handleResultWrapped(x) == [code |-> 200, data |-> x.result]

\* handle.result() of a completed execution: what the workflow returned.
handleResult(x) == x.result

\* `return handle.result()` resolved.
Resolves(call, x) == [call EXCEPT !.pc = "returned", !.value = handleResult(x)]

\* client.workflow.start: the engine accepts the execution.
Submit(type, input, args, wid, pc, via) ==
  /\ Len(wf) < MaxExec
  /\ Len(calls) < MaxCalls
  /\ IdFree(wid)
  /\ wf' = Append(wf, NewExec(type, input, args, wid, pc, via))
  /\ calls' = Append(calls, Accepted(Starts(NewCall(type, input), wid), Len(wf) + 1))
  /\ UNCHANGED <<users, seq, clock, worker, logger>>

(***************************************************************************)
(* The logging sink (WinstonTemporalLogger).  `heap` holds the metadata     *)
(* objects, a sink refers to its defaultMeta object by `ref`; `records` are *)
(* the calls made on the underlying logger, `calls` the calls made on the   *)
(* sinks.  `bound`, `parent` and `extra` remember how a sink was created.   *)
(***************************************************************************)
NoSinks == [heap |-> <<>>, sinks |-> <<>>, records |-> <<>>, calls |-> <<>>]

\* Metadata objects callers pass as meta, childMeta or attrs.
MetaInputs ==
  {[k \in {} |-> ""], [component |-> "a"], [component |-> "b", temporalLevel |-> "b"]}

Messages == {"msg1", "msg2"}

Methods == {"trace", "debug", "info", "warn", "error"}

\* Object spread { ...a, ...b }: the fields of both, b's value where both have one.
Spread(a, b) ==
  [k \in DOMAIN a \cup DOMAIN b |-> IF k \in DOMAIN b THEN b[k] ELSE a[k]]

\* Faulty variant of forward: the spread order is reversed, bound fields win.
forwardBoundWins(method, defaultMeta, message, attrs) ==
  <<[level |-> IF method = "trace" THEN "debug" ELSE method, message |-> message,
     meta |-> IF method = "trace"
                THEN Spread(Spread(attrs, defaultMeta), [temporalLevel |-> "TRACE"])
                ELSE Spread(attrs, defaultMeta)]>>

\* The five sink methods: the calls each makes on the underlying logger.
forward(method, defaultMeta, message, attrs) ==
  CASE method = "trace" ->
         <<[level |-> "debug", message |-> message,
            meta |-> Spread(Spread(defaultMeta, attrs), [temporalLevel |-> "TRACE"])]>>
    [] method = "debug" ->
         <<[level |-> "debug", message |-> message, meta |-> Spread(defaultMeta, attrs)]>>
    [] method = "info" ->
         <<[level |-> "info", message |-> message, meta |-> Spread(defaultMeta, attrs)]>>
    [] method = "warn" ->
         <<[level |-> "warn", message |-> message, meta |-> Spread(defaultMeta, attrs)]>>
    [] method = "error" ->
         <<[level |-> "error", message |-> message, meta |-> Spread(defaultMeta, attrs)]>>

\* Faulty variant of childSink: childMeta is assigned into the parent's own
\* defaultMeta object, which the child then shares.
childSinkInPlace(heap, ref, childMeta) ==
  [heap |-> [heap EXCEPT ![ref] = Spread(@, childMeta)], ref |-> ref]

\* child(childMeta): new WinstonTemporalLogger({...this.defaultMeta, ...childMeta}),
\* a fresh object for the new sink.
childSink(heap, ref, childMeta) ==
  [heap |-> Append(heap, Spread(heap[ref], childMeta)), ref |-> Len(heap) + 1]

Sinks == 1..Len(logger.sinks)

\* createTemporalLogger(meta): the sink keeps the object it was given.
createTemporalLogger ==
  /\ Len(logger.sinks) < MaxSinks
  /\ \E meta \in MetaInputs :
       logger' = [logger EXCEPT
                    !.heap = Append(@, meta),
                    !.sinks = Append(@, [ref |-> Len(logger.heap) + 1, bound |-> meta,
                                         parent |-> 0, extra |-> meta])]
  /\ UNCHANGED <<users, seq, clock, wf, calls, worker>>

child(s) ==
  /\ s \in Sinks
  /\ Len(logger.sinks) < MaxSinks
  /\ \E childMeta \in MetaInputs :
       LET c == childSink(logger.heap, logger.sinks[s].ref, childMeta)
       IN  logger' = [logger EXCEPT
                        !.heap = c.heap,
                        !.sinks = Append(@, [ref |-> c.ref, bound |-> c.heap[c.ref],
                                             parent |-> s, extra |-> childMeta])]
  /\ UNCHANGED <<users, seq, clock, wf, calls, worker>>

\* A call of one of the five methods on sink s.
log(s) ==
  /\ s \in Sinks
  /\ Len(logger.calls) < MaxLogCalls
  /\ \E method \in Methods, message \in Messages, attrs \in MetaInputs :
       logger' = [logger EXCEPT
                    !.records = @ \o forward(method, logger.heap[logger.sinks[s].ref],
                                             message, attrs),
                    !.calls = Append(@, [sink |-> s, method |-> method,
                                         message |-> message, attrs |-> attrs])]
  /\ UNCHANGED <<users, seq, clock, wf, calls, worker>>

\* Tables the service may find at start-up: rows that earlier create requests
\* left behind, with ids handed out by the sequence in order.
SeedRows ==
  [i \in 1..MaxSeed |->
     NewRow(i, 0, [name |-> "n1", email |-> "e1", mobile |-> IF i = 1 THEN "m1" ELSE "m2"])]

\* The worker process before runUserWorker() has run; `err` is the rejection
\* runUserWorker() ended with, exitCode -1 stands for a process that has not
\* exited.
WorkerStarting ==
  [pc |-> "starting", taskQueue |-> "", workflows |-> {}, activities |-> {},
   exitCode |-> -1, log |-> <<>>, err |-> "none"]

Init ==
  /\ \E n \in 0..MaxSeed :
       /\ users = {SeedRows[i] : i \in 1..n}
       /\ seq = n + 1
  /\ clock = 0
  /\ wf = <<>>
  /\ calls = <<>>
  /\ worker = WorkerStarting
  /\ logger = NoSinks

\* Time passes: Date.now() and the store's CURRENT_TIMESTAMP advance.
Tick ==
  /\ clock < MaxClock
  /\ clock' = clock + 1
  /\ UNCHANGED <<users, seq, wf, calls, worker, logger>>

(***************************************************************************)
(* Dispatch layer.                                                         *)
(***************************************************************************)
\* The workflow-id template strings, with `now` the value of Date.now():
\*   `create-user-${userData.mobile}-${Date.now()}`, `update-user-${id}-${Date.now()}`,
\*   `get-user-${id}-${Date.now()}`, `get-all-users-${Date.now()}`.
workflowId(type, input, now) ==
  CASE type = "createUserWorkflow" -> <<"create-user", input.mobile, now>>
    [] type = "updateUserWorkflow" -> <<"update-user", input.id, now>>
    [] type = "getUserWorkflow" -> <<"get-user", input, now>>
    [] type = "getAllUsersWorkflow" -> <<"get-all-users", now>>

startCreateUser(userData, via) ==
  Submit("createUserWorkflow", userData, userData,
         workflowId("createUserWorkflow", userData, clock),
         "checkDuplicateByMobileActivity", via)

startUpdateUser(id, userData, via) ==
  Submit("updateUserWorkflow", [id |-> id, userData |-> userData],
         [id |-> id, userData |-> userData],
         workflowId("updateUserWorkflow", [id |-> id], clock), "updateUserActivity", via)

startGetUser(id, via) ==
  Submit("getUserWorkflow", id, id, workflowId("getUserWorkflow", id, clock),
         "getUserActivity", via)

\* The dispatch function applies its own defaults before submitting.
startGetAllUsers(p, via) ==
  Submit("getAllUsersWorkflow", p, startGetAllUsersParams(p),
         workflowId("getAllUsersWorkflow", p, clock), "getAllUsersActivity", via)

DispatchCreate(conc) ==
  /\ Cardinality(Running) < conc
  /\ \E d \in CreateInputs : startCreateUser(d, "client")

DispatchUpdate(conc) ==
  /\ Cardinality(Running) < conc
  /\ \E id \in Ids, d \in UpdateInputs : startUpdateUser(id, d, "client")

DispatchGet(conc) ==
  /\ Cardinality(Running) < conc
  /\ \E id \in Ids : startGetUser(id, "client")

DispatchList(conc) ==
  /\ Cardinality(Running) < conc
  /\ \E p \in ListInputs : startGetAllUsers(p, "client")

\* HTTP GET /api/users: the controller's index handler.
index(conc) ==
  /\ Cardinality(Running) < conc
  /\ startGetAllUsers([limit |-> 100, offset |-> 0], "index")

\* What a caller can pass to the four dispatch functions.
DispatchInputs ==
  {[type |-> "createUserWorkflow", input |-> d] : d \in CreateInputs}
    \cup {[type |-> "updateUserWorkflow", input |-> [id |-> id, userData |-> d]] :
             id \in Ids, d \in UpdateInputs}
    \cup {[type |-> "getUserWorkflow", input |-> id] : id \in Ids}
    \cup {[type |-> "getAllUsersWorkflow", input |-> p] : p \in ListInputs}

\* `await getClient()` rejects: the engine is unreachable.
getClientRejects ==
  /\ Len(calls) < MaxCalls
  /\ \E r \in DispatchInputs :
       calls' = Append(calls, Rejects(NewCall(r.type, r.input), "TransportError"))
  /\ UNCHANGED <<users, seq, clock, wf, worker, logger>>

\* The engine refuses the start: an execution with that workflow-id is running.
startAlreadyStarted ==
  /\ Len(calls) < MaxCalls
  /\ \E r \in DispatchInputs :
       /\ ~IdFree(workflowId(r.type, r.input, clock))
       /\ calls' = Append(calls,
                          Rejects(Starts(NewCall(r.type, r.input),
                                         workflowId(r.type, r.input, clock)),
                                  "WorkflowExecutionAlreadyStartedError"))
  /\ UNCHANGED <<users, seq, clock, wf, worker, logger>>

\* `await client.workflow.start(...)` rejects because the connection failed.
startRejects ==
  /\ Len(calls) < MaxCalls
  /\ \E r \in DispatchInputs :
       calls' = Append(calls,
                       Rejects(Starts(NewCall(r.type, r.input),
                                      workflowId(r.type, r.input, clock)),
                               "TransportError"))
  /\ UNCHANGED <<users, seq, clock, wf, worker, logger>>

Awaiting(c) == c \in Calls /\ calls[c].pc = "result"

\* handle.result() resolves once the execution has completed.
resultResolves(c) ==
  /\ Awaiting(c)
  /\ wf[calls[c].handle].status = "completed"
  /\ calls' = [calls EXCEPT ![c] = Resolves(@, wf[calls[c].handle])]
  /\ UNCHANGED <<users, seq, clock, wf, worker, logger>>

\* handle.result() rejects once the execution has closed without a result.
resultRejects(c) ==
  /\ Awaiting(c)
  /\ wf[calls[c].handle].status = "failed"
  /\ calls' = [calls EXCEPT ![c] = Rejects(@, "WorkflowFailedError")]
  /\ UNCHANGED <<users, seq, clock, wf, worker, logger>>

\* handle.result() rejects because the connection failed while waiting.
resultLost(c) ==
  /\ Awaiting(c)
  /\ calls' = [calls EXCEPT ![c] = Rejects(@, "TransportError")]
  /\ UNCHANGED <<users, seq, clock, wf, worker, logger>>

(***************************************************************************)
(* HTTP handlers of the user controller: the response each sends for the    *)
(* outcome its dispatch call returned.                                      *)
(***************************************************************************)
createHandler(result) ==
  IF result.code = 409
    THEN [status |-> 409, body |-> [message |-> result.message, id |-> result.id]]
  ELSE IF result.code = 400
    THEN [status |-> 400, body |-> [message |-> result.message]]
  ELSE [status |-> 201,
        body |-> [message |-> result.message, id |-> result.id, user |-> result.user]]

indexHandler(result) == [status |-> result.code, body |-> result.users]

\* Faulty variant of getUserHandler: always answers 200.
getUserHandlerAlways200(result) == [status |-> 200, body |-> result.user]

getUserHandler(result) ==
  IF result.code = 404
    THEN [status |-> 404, body |-> [message |-> result.message]]
    ELSE [status |-> result.code, body |-> result.user]

updateHandler(result) ==
  [status |-> result.code,
   body |-> [message |-> "User updated successfully.", success |-> result.success,
             id |-> result.id]]

Handler(type, result) ==
  CASE type = "createUserWorkflow" -> createHandler(result)
    [] type = "updateUserWorkflow" -> updateHandler(result)
    [] type = "getUserWorkflow" -> getUserHandler(result)
    [] type = "getAllUsersWorkflow" -> indexHandler(result)

\* The handler's `await start...(...)` resolved: it sends its response.  List
\* calls with other parameters than the handler's do not come from a handler.
respond(c) ==
  /\ c \in Calls
  /\ calls[c].pc = "returned"
  /\ calls[c].response = NoResponse
  /\ calls[c].type = "getAllUsersWorkflow" => wf[calls[c].handle].via = "index"
  /\ calls' = [calls EXCEPT ![c].response = Handler(calls[c].type, calls[c].value)]
  /\ UNCHANGED <<users, seq, clock, wf, worker, logger>>

\* The engine closes a running execution without letting it return: an
\* operator terminates or cancels it.
terminate(e) ==
  /\ e \in Running
  /\ wf' = [wf EXCEPT ![e] = [@ EXCEPT !.status = "failed", !.err = "TerminatedFailure"]]
  /\ UNCHANGED <<users, seq, clock, calls, worker, logger>>

(***************************************************************************)
(* Worker: one action per activity.  An activity's completion is recorded  *)
(* by the engine and the workflow code up to the next await (or return)    *)
(* runs with it.                                                           *)
(***************************************************************************)
\* Named exports of workflows/user/index.js, the module workflowsPath loads.
workflowsPathExports ==
  {"createUserWorkflow", "getAllUsersWorkflow", "getUserWorkflow", "updateUserWorkflow"}

\* `import * as activities`: the exported functions of activities.ts.
activitiesExports ==
  {"checkDuplicateByMobileActivity", "createUserActivity", "updateUserActivity",
   "getUserActivity", "getAllUsersActivity"}

\* Faulty variant of runUserWorkerCreated: the worker polls another queue.
runUserWorkerCreatedOtherQueue(w) ==
  [w EXCEPT !.pc = "running", !.taskQueue = "OTHER_QUEUE", !.workflows = workflowsPathExports,
            !.activities = activitiesExports, !.log = Append(@, "info")]

\* runUserWorker once Worker.create has resolved: the worker is registered on
\* USER_QUEUE with the workflows and activities it was given, the start is
\* logged and worker.run() is polling.
runUserWorkerCreated(w) ==
  [w EXCEPT !.pc = "running", !.taskQueue = USER_QUEUE, !.workflows = workflowsPathExports,
            !.activities = activitiesExports, !.log = Append(@, "info")]

\* Faulty variant of runUserWorkerCatch: the error is logged and swallowed.
runUserWorkerCatchNoExit(w) == [w EXCEPT !.pc = "failed", !.log = Append(@, "error")]

\* runUserWorker().catch(...): logger.error, then process.exit(1).
runUserWorkerCatch(w) ==
  [w EXCEPT !.pc = "exited", !.exitCode = 1, !.log = Append(@, "error")]

WorkerCreate ==
  /\ worker.pc = "starting"
  /\ worker' = runUserWorkerCreated(worker)
  /\ UNCHANGED <<users, seq, clock, wf, calls, logger>>

\* createTemporalLogger throws or Worker.create rejects (engine unreachable,
\* workflow bundle does not build).
WorkerCreateFails ==
  /\ worker.pc = "starting"
  /\ worker' = runUserWorkerCatch([worker EXCEPT !.err = "Worker.create"])
  /\ UNCHANGED <<users, seq, clock, wf, calls, logger>>

\* worker.run() rejects.
WorkerRunRejects ==
  /\ worker.pc = "running"
  /\ worker' = runUserWorkerCatch([worker EXCEPT !.err = "worker.run"])
  /\ UNCHANGED <<users, seq, clock, wf, calls, logger>>

\* The engine hands an execution's tasks to a live worker that polls the
\* execution's task queue and has its workflow type and activity registered.
Polls(x) ==
  /\ worker.pc = "running"
  /\ x.taskQueue = worker.taskQueue
  /\ x.type \in worker.workflows
  /\ x.pc \in worker.activities

At(e, pc) == e \in Running /\ wf[e].pc = pc /\ Polls(wf[e])

\* Faulty variant of Return: the outcome is reported as a failure of the
\* activity, so the engine schedules the activity again.
ReturnAsFailure(x, result) ==
  [x EXCEPT !.result = result, !.attempt = @ + 1, !.failures = @ + 1]

\* The workflow function returns `result`.
Return(x, result) ==
  [x EXCEPT !.pc = "done", !.status = "completed", !.result = result,
            !.done = Append(@, x.pc)]

\* An attempt of the activity the execution is at throws or times out.
Throws(x) == [x EXCEPT !.failures = @ + 1]

\* Faulty variant of Failed: the workflow catches the failure and returns it
\* as an outcome.
FailedAsOutcome(x, kind) == Return(x, [code |-> 500, message |-> kind])

\* The attempt did not complete: the engine schedules the next attempt, or
\* fails the execution when the retry policy is exhausted.
Failed(x, kind) ==
  IF ShouldRetry(x.attempt)
    THEN [x EXCEPT !.attempt = @ + 1, !.err = kind]
    ELSE [x EXCEPT !.status = "failed", !.err = kind]

RowsOf(tbl, id) == {r \in tbl : r.id = id}

\* The engine records the completion of the activity the execution awaits:
\* the call, as the workflow issued it, and its result.
Recorded(x, args, result) ==
  [x EXCEPT !.cmds = Append(@, [activity |-> x.pc, args |-> args]),
            !.hist = Append(@, result)]

checkDuplicate(e) ==
  /\ At(e, "checkDuplicateByMobileActivity")
  /\ \E duplicate \in checkDuplicateByMobileActivity(users, wf[e].args.mobile) :
       wf' = [wf EXCEPT ![e] =
                IF duplicate # Null
                  THEN Return([Recorded(@, wf[e].args.mobile, duplicate)
                                 EXCEPT !.duplicate = duplicate,
                                        !.pre = {r \in users : r.mobile = wf[e].args.mobile}],
                              createUserWorkflowDuplicate(duplicate))
                  ELSE [Recorded(@, wf[e].args.mobile, duplicate)
                          EXCEPT !.pc = "createUserActivity", !.attempt = 1,
                                 !.err = "none", !.failures = 0,
                                 !.done = Append(@, "checkDuplicateByMobileActivity")]]
  /\ UNCHANGED <<users, seq, clock, calls, worker, logger>>

\* createUserActivity runs to its return and the completion is recorded.
createUser(e) ==
  /\ At(e, "createUserActivity")
  /\ seq <= MaxRows
  /\ LET user == NewRow(seq, clock, wf[e].args)
     IN  /\ users' = users \cup {user}
         /\ seq' = seq + 1
         /\ wf' = [wf EXCEPT ![e] =
                     Return([Recorded(@, wf[e].args, createUserActivityResult(user))
                               EXCEPT !.ins = @ \cup {user}],
                            createUserWorkflowCreated(createUserActivityResult(user)))]
  /\ UNCHANGED <<clock, calls, worker, logger>>

\* createUserActivity inserts, but the completion never reaches the engine
\* (the worker crashes, or the attempt exceeds startToCloseTimeout after the
\* insert): the engine redelivers the activity.
createUserRedelivered(e, cap) ==
  /\ At(e, "createUserActivity")
  /\ seq <= MaxRows
  /\ wf[e].attempt < cap
  /\ LET user == NewRow(seq, clock, wf[e].args)
     IN  /\ users' = users \cup {user}
         /\ seq' = seq + 1
         /\ wf' = [wf EXCEPT ![e] = Failed(Throws([@ EXCEPT !.ins = @ \cup {user}]),
                                          "TimeoutFailure")]
  /\ UNCHANGED <<clock, calls, worker, logger>>

\* User.create rejects; the activity logs and rethrows whatever it caught.
createUserThrows(e, cap) ==
  /\ At(e, "createUserActivity")
  /\ wf[e].attempt < cap
  /\ \E kind \in StoreErrors : wf' = [wf EXCEPT ![e] = Failed(Throws(@), kind)]
  /\ UNCHANGED <<users, seq, clock, calls, worker, logger>>

updateUser(e) ==
  /\ At(e, "updateUserActivity")
  /\ LET id == wf[e].args.id
         after == UpdateRows(users, id, clock, wf[e].args.userData)
     IN  /\ users' = after
         /\ wf' = [wf EXCEPT ![e] =
                     Return([Recorded(@, wf[e].args, updateUserActivityResult(id))
                               EXCEPT !.pre = RowsOf(users, id), !.post = RowsOf(after, id)],
                            updateUserWorkflowResult(updateUserActivityResult(id)))]
  /\ UNCHANGED <<seq, clock, calls, worker, logger>>

\* The update is applied but its completion is lost, or User.update rejects.
updateUserFails(e, cap) ==
  /\ At(e, "updateUserActivity")
  /\ wf[e].attempt < cap
  /\ \/ /\ users' = UpdateRows(users, wf[e].args.id, clock, wf[e].args.userData)
        /\ wf' = [wf EXCEPT ![e] = Failed(Throws(@), "TimeoutFailure")]
     \/ /\ users' = users
        /\ wf' = [wf EXCEPT ![e] = Failed(Throws(@), "SequelizeConnectionError")]
  /\ UNCHANGED <<seq, clock, calls, worker, logger>>

\* Faulty variant of getUser: reading a user also marks the row suspended.
getUserSuspending(e) ==
  /\ At(e, "getUserActivity")
  /\ \E user \in getUserActivity(users, wf[e].args) :
       wf' = [wf EXCEPT ![e] =
                Return([Recorded(@, wf[e].args, user)
                          EXCEPT !.pre = RowsOf(users, wf[e].args)],
                       getUserWorkflowResult(user))]
  /\ users' = {IF r.id = wf[e].args THEN [r EXCEPT !.suspend_status = TRUE] ELSE r :
                r \in users}
  /\ UNCHANGED <<seq, clock, calls, worker, logger>>

getUser(e) ==
  /\ At(e, "getUserActivity")
  /\ \E user \in getUserActivity(users, wf[e].args) :
       wf' = [wf EXCEPT ![e] =
                Return([Recorded(@, wf[e].args, user)
                          EXCEPT !.pre = RowsOf(users, wf[e].args)],
                       getUserWorkflowResult(user))]
  /\ UNCHANGED <<users, seq, clock, calls, worker, logger>>

getAllUsers(e) ==
  /\ At(e, "getAllUsersActivity")
  /\ \E page \in getAllUsersActivity(users, getAllUsersWorkflowParams(wf[e].args)) :
       wf' = [wf EXCEPT ![e] =
                Return([Recorded(@, getAllUsersWorkflowParams(wf[e].args), page)
                          EXCEPT !.pre = Live(users),
                                 !.used = getAllUsersActivityParams(
                                            getAllUsersWorkflowParams(wf[e].args))],
                       getAllUsersWorkflowResult(page))]
  /\ UNCHANGED <<users, seq, clock, calls, worker, logger>>

\* A read activity's store call rejects, or its attempt times out.
readFails(e, cap) ==
  /\ e \in Running
  /\ Polls(wf[e])
  /\ wf[e].pc \in {"checkDuplicateByMobileActivity", "getUserActivity", "getAllUsersActivity"}
  /\ wf[e].attempt < cap
  /\ wf' = [wf EXCEPT ![e] = Failed(Throws(@), "SequelizeConnectionError")]
  /\ UNCHANGED <<users, seq, clock, calls, worker, logger>>

\* An attempt numbered `cap` or later fails.  Attempt number `cap` stands for
\* every later attempt as well, so a run of failures of any length is a
\* behaviour; the failure differs from the one before (say a timeout after
\* a rejected store call).
failsAgain(e, cap) ==
  /\ e \in Running
  /\ Polls(wf[e])
  /\ wf[e].attempt = cap
  /\ \E kind \in (StoreErrors \cup {"TimeoutFailure"}) \ {wf[e].err} :
       wf' = [wf EXCEPT ![e] =
                IF ShouldRetry(@.attempt)
                  THEN [@ EXCEPT !.err = kind]
                  ELSE [@ EXCEPT !.status = "failed", !.err = kind]]
  /\ UNCHANGED <<users, seq, clock, calls, worker, logger>>

\* Requests arrive while fewer than MaxRunning executions are in flight; failed
\* attempts are explored up to attempt number MaxAttempt.
Next ==
  \/ Tick
  \/ WorkerCreate
  \/ DispatchCreate(MaxRunning)
  \/ DispatchUpdate(MaxRunning)
  \/ DispatchGet(MaxRunning)
  \/ DispatchList(MaxRunning)
  \/ index(MaxRunning)
  \/ \E e \in Execs : checkDuplicate(e)
  \/ \E e \in Execs : createUser(e)
  \/ \E e \in Execs : createUserRedelivered(e, MaxAttempt)
  \/ \E e \in Execs : createUserThrows(e, MaxAttempt)
  \/ \E e \in Execs : updateUser(e)
  \/ \E e \in Execs : updateUserFails(e, MaxAttempt)
  \/ \E e \in Execs : getUser(e)
  \/ \E e \in Execs : getAllUsers(e)
  \/ \E e \in Execs : readFails(e, MaxAttempt)

Spec == Init /\ [][Next]_vars

\* One request at a time, with long runs of failing attempts.
NextRetry ==
  \/ Tick
  \/ WorkerCreate
  \/ DispatchCreate(1)
  \/ DispatchUpdate(1)
  \/ DispatchGet(1)
  \/ DispatchList(1)
  \/ index(1)
  \/ \E e \in Execs : checkDuplicate(e)
  \/ \E e \in Execs : createUser(e)
  \/ \E e \in Execs : createUserRedelivered(e, MaxRetry)
  \/ \E e \in Execs : createUserThrows(e, MaxRetry)
  \/ \E e \in Execs : updateUser(e)
  \/ \E e \in Execs : updateUserFails(e, MaxRetry)
  \/ \E e \in Execs : getUser(e)
  \/ \E e \in Execs : getAllUsers(e)
  \/ \E e \in Execs : readFails(e, MaxRetry)

SpecRetry == Init /\ [][NextRetry]_vars

\* The behaviours in which every activity completes on its first attempt.
NextNoFailure ==
  \/ Tick
  \/ WorkerCreate
  \/ DispatchCreate(MaxRunning)
  \/ DispatchUpdate(MaxRunning)
  \/ DispatchGet(MaxRunning)
  \/ DispatchList(MaxRunning)
  \/ index(MaxRunning)
  \/ \E e \in Execs : checkDuplicate(e)
  \/ \E e \in Execs : createUser(e)
  \/ \E e \in Execs : updateUser(e)
  \/ \E e \in Execs : getUser(e)
  \/ \E e \in Execs : getAllUsers(e)

SpecNoFailure == Init /\ [][NextNoFailure]_vars

\* The dispatch functions' calls from entry to return or rejection, with the
\* engine closing executions and activity attempts failing up to attempt
\* number MaxDispatchAttempt.
NextDispatch ==
  \/ Tick
  \/ WorkerCreate
  \/ DispatchCreate(MaxRunning)
  \/ DispatchUpdate(MaxRunning)
  \/ DispatchGet(MaxRunning)
  \/ DispatchList(MaxRunning)
  \/ getClientRejects
  \/ startAlreadyStarted
  \/ startRejects
  \/ \E c \in Calls : resultResolves(c)
  \/ \E c \in Calls : resultRejects(c)
  \/ \E c \in Calls : resultLost(c)
  \/ \E e \in Execs : terminate(e)
  \/ \E e \in Execs : checkDuplicate(e)
  \/ \E e \in Execs : createUser(e)
  \/ \E e \in Execs : createUserRedelivered(e, MaxDispatchAttempt)
  \/ \E e \in Execs : createUserThrows(e, MaxDispatchAttempt)
  \/ \E e \in Execs : updateUser(e)
  \/ \E e \in Execs : updateUserFails(e, MaxDispatchAttempt)
  \/ \E e \in Execs : getUser(e)
  \/ \E e \in Execs : getAllUsers(e)
  \/ \E e \in Execs : readFails(e, MaxDispatchAttempt)

SpecDispatch == Init /\ [][NextDispatch]_vars

\* The worker process from start to exit, serving requests while it runs.
NextWorker ==
  \/ Tick
  \/ WorkerCreate
  \/ WorkerCreateFails
  \/ WorkerRunRejects
  \/ DispatchCreate(MaxRunning)
  \/ DispatchUpdate(MaxRunning)
  \/ DispatchGet(MaxRunning)
  \/ DispatchList(MaxRunning)
  \/ index(MaxRunning)
  \/ \E e \in Execs : checkDuplicate(e)
  \/ \E e \in Execs : createUser(e)
  \/ \E e \in Execs : updateUser(e)
  \/ \E e \in Execs : getUser(e)
  \/ \E e \in Execs : getAllUsers(e)

SpecWorker == Init /\ [][NextWorker]_vars

\* Requests from the HTTP handlers to their responses, every activity
\* completing on its first attempt.
NextHttp ==
  \/ Tick
  \/ WorkerCreate
  \/ DispatchCreate(MaxRunning)
  \/ DispatchUpdate(MaxRunning)
  \/ DispatchGet(MaxRunning)
  \/ index(MaxRunning)
  \/ \E e \in Execs : checkDuplicate(e)
  \/ \E e \in Execs : createUser(e)
  \/ \E e \in Execs : updateUser(e)
  \/ \E e \in Execs : getUser(e)
  \/ \E e \in Execs : getAllUsers(e)
  \/ \E c \in Calls : resultResolves(c)
  \/ \E c \in Calls : respond(c)

SpecHttp == Init /\ [][NextHttp]_vars

\* Sinks being created, derived and called.
NextLogger ==
  \/ createTemporalLogger
  \/ \E s \in Sinks : child(s)
  \/ \E s \in Sinks : log(s)

SpecLogger == Init /\ [][NextLogger]_vars

\* One request at a time under fair scheduling: the worker keeps polling, so
\* an execution that awaits an activity gets another attempt of it (which may
\* complete or fail), and a completed execution's result reaches its caller.
\* Nothing obliges an attempt to succeed.
attempt(e) ==
  \/ checkDuplicate(e)
  \/ createUser(e)
  \/ createUserThrows(e, MaxLiveAttempt)
  \/ updateUser(e)
  \/ updateUserFails(e, MaxLiveAttempt)
  \/ getUser(e)
  \/ getAllUsers(e)
  \/ readFails(e, MaxLiveAttempt)
  \/ failsAgain(e, MaxLiveAttempt)

NextLive ==
  \/ WorkerCreate
  \/ DispatchCreate(1)
  \/ DispatchUpdate(1)
  \/ DispatchGet(1)
  \/ DispatchList(1)
  \/ \E e \in Execs : attempt(e)
  \/ \E c \in Calls : resultResolves(c)

SpecLive ==
  /\ Init
  /\ [][NextLive]_vars
  /\ WF_vars(WorkerCreate)
  /\ \A e \in 1..MaxExec : WF_vars(attempt(e))
  /\ \A c \in 1..MaxCalls : WF_vars(resultResolves(c))

(***************************************************************************)
(* Properties.                                                             *)
(***************************************************************************)
Completed(e) == wf[e].status = "completed"

Creates == {e \in Execs : wf[e].type = "createUserWorkflow"}
Updates == {e \in Execs : wf[e].type = "updateUserWorkflow"}
Gets == {e \in Execs : wf[e].type = "getUserWorkflow"}
Lists == {e \in Execs : wf[e].type = "getAllUsersWorkflow"}

DuplicateMessage == "Duplicate mobile number found. Possible fraud."

\* C1: whenever the duplicate check of a createUserWorkflow execution returned
\* an existing record for the input mobile, the execution has terminated with
\* code 409, the id of that record and the duplicate/possible-fraud message,
\* and it has inserted nothing (so no 201 outcome exists for it).
C1_DuplicateYields409 ==
  \A e \in Creates :
    wf[e].duplicate # Null =>
      /\ Completed(e)
      /\ \E r \in wf[e].pre : r.mobile = wf[e].args.mobile /\ r.id = wf[e].duplicate.id
      /\ wf[e].result = [code |-> 409, id |-> wf[e].duplicate.id, message |-> DuplicateMessage]
      /\ wf[e].ins = {}

\* A create execution whose duplicate check found a record has completed.
C1_Witness ==
  \E e \in Creates : wf[e].duplicate # Null /\ Completed(e) /\ wf[e].pre # {}

\* C2: a createUserWorkflow execution that ends with 201 returns the id and the
\* id, name, email and mobile of a record it inserted, that record carries the
\* submitted fields, and it is the only record the execution inserted.
C2_CreatedOnce ==
  \A e \in Creates :
    Completed(e) /\ wf[e].result.code = 201 =>
      /\ wf[e].duplicate = Null
      /\ \E r \in wf[e].ins :
           /\ wf[e].result.id = r.id
           /\ wf[e].result.user =
                [id |-> r.id, name |-> wf[e].args.name, email |-> wf[e].args.email,
                 mobile |-> wf[e].args.mobile]
           /\ r.name = wf[e].args.name /\ r.email = wf[e].args.email
           /\ r.mobile = wf[e].args.mobile
      /\ Cardinality(wf[e].ins) = 1

\* C3: a createUserWorkflow execution whose createUserActivity failed with a
\* store uniqueness violation has terminated with the 409 business outcome.
C3_UniqueViolationYields409 ==
  \A e \in Creates :
    wf[e].err = "SequelizeUniqueConstraintError" =>
      Completed(e) /\ wf[e].result.code = 409

\* C4: of two completed create requests with the same mobile at most one ends
\* with 201, and then the other ends with 409 carrying the id the first created.
C4_OneCreatePerMobile ==
  \A e1, e2 \in Creates :
    e1 # e2 /\ Completed(e1) /\ Completed(e2) /\ wf[e1].args.mobile = wf[e2].args.mobile =>
      /\ ~(wf[e1].result.code = 201 /\ wf[e2].result.code = 201)
      /\ wf[e1].result.code = 201 =>
           wf[e2].result.code = 409 /\ wf[e2].result.id = wf[e1].result.id

\* C5: however often the engine executes createUserActivity for one logical
\* call, the store receives at most one record for that call.
C5_CreateInsertsOnce == \A e \in Creates : Cardinality(wf[e].ins) <= 1

\* A row without its updated_on stamp.
Strip(r) == [f \in DOMAIN r \ {"updated_on"} |-> r[f]]

\* Two completed runs of updateUserWorkflow with the same id and userData, the
\* second starting from the record state the first one left.
SameUpdateTwice(e1, e2) ==
  /\ e1 \in Updates /\ e2 \in Updates /\ e1 # e2
  /\ Completed(e1) /\ Completed(e2)
  /\ wf[e1].args = wf[e2].args
  /\ wf[e2].pre = wf[e1].post

\* C6 as stated: the second run leaves the record in the same state as the first.
C6_UpdateIdempotentExact ==
  \A e1, e2 \in Execs :
    SameUpdateTwice(e1, e2) =>
      /\ wf[e2].post = wf[e1].post
      /\ wf[e1].result = [code |-> 200, success |-> TRUE, id |-> wf[e1].args.id]
      /\ wf[e2].result = wf[e1].result

\* C6, amended: the second run leaves every field of the record other than
\* updated_on as the first run left it (updated_on takes the time of the later
\* run), and both runs return code 200 with the same id and success = true.
C6_UpdateIdempotent ==
  \A e1, e2 \in Execs :
    SameUpdateTwice(e1, e2) =>
      /\ {Strip(r) : r \in wf[e2].post} = {Strip(r) : r \in wf[e1].post}
      /\ wf[e1].result = [code |-> 200, success |-> TRUE, id |-> wf[e1].args.id]
      /\ wf[e2].result = wf[e1].result

\* The same update ran twice on an existing record, at different times.
C6_Witness ==
  \E e1, e2 \in Execs :
    /\ SameUpdateTwice(e1, e2)
    /\ wf[e1].post # {}
    /\ wf[e2].post # wf[e1].post

\* C7: getUserWorkflow returns {404, 'User not found', user: null} exactly when
\* no record with the requested id existed, and otherwise 200 with the id,
\* mobile, name and email of the record with that id.
C7_GetUser ==
  \A e \in Gets :
    Completed(e) =>
      IF wf[e].pre = {}
        THEN wf[e].result = [code |-> 404, message |-> "User not found", user |-> Null]
        ELSE \E r \in wf[e].pre :
               /\ r.id = wf[e].args
               /\ wf[e].result =
                    [code |-> 200,
                     user |-> [id |-> r.id, mobile |-> r.mobile, name |-> r.name,
                               email |-> r.email]]

\* Both outcomes of getUserWorkflow have been produced.
C7_Witness ==
  /\ \E e \in Gets : Completed(e) /\ wf[e].pre = {}
  /\ \E e \in Gets : Completed(e) /\ wf[e].pre # {}

\* C8: a completed getAllUsersWorkflow carries code 200 and a page the store
\* yields for the (limit, offset) the activity used; a limit or offset the
\* caller left out is 100 or 0 in what the dispatch function submits, in what
\* the workflow passes on and in what the activity queries with; and the HTTP
\* list handler dispatches limit = 100, offset = 0.
C8_ListDefaults ==
  \A e \in Lists :
    /\ wf[e].args.limit = (IF "limit" \in DOMAIN wf[e].input THEN wf[e].input.limit ELSE 100)
    /\ wf[e].args.offset = (IF "offset" \in DOMAIN wf[e].input THEN wf[e].input.offset ELSE 0)
    /\ wf[e].via = "index" => wf[e].args = [limit |-> 100, offset |-> 0]
    /\ Completed(e) =>
         /\ wf[e].result.code = 200
         /\ DOMAIN wf[e].result = {"code", "users"}
         /\ wf[e].result.users \in FindAll(wf[e].pre, wf[e].used.limit, wf[e].used.offset)
         /\ wf[e].used = wf[e].args
         /\ getAllUsersWorkflowParams(wf[e].input) = wf[e].used
         /\ getAllUsersActivityParams(wf[e].input) = wf[e].used

\* A list request that left out limit and offset has completed over a
\* non-empty store, and so has one from the HTTP handler.
C8_Witness ==
  /\ \E e \in Lists :
       Completed(e) /\ DOMAIN wf[e].input = {} /\ wf[e].via = "client"
         /\ Len(wf[e].result.users) > 0
  /\ \E e \in Lists : Completed(e) /\ wf[e].via = "index"

OutcomeCodes(type) ==
  CASE type = "createUserWorkflow" -> {201, 409}
    [] type = "getUserWorkflow" -> {200, 404}
    [] type = "updateUserWorkflow" -> {200}
    [] type = "getAllUsersWorkflow" -> {200}

\* C9: an execution has an outcome exactly when it has completed, and the
\* outcome's code lies in the closed set of its workflow type.
C9_ClosedOutcomes ==
  \A e \in Execs :
    /\ Completed(e) <=> wf[e].result # NoResult
    /\ Completed(e) => wf[e].result.code \in OutcomeCodes(wf[e].type)

\* A create that ended with 201 and an execution of another type have completed.
C9_Witness ==
  \E e1, e2 \in Execs :
    /\ Completed(e1) /\ wf[e1].result.code = 201
    /\ Completed(e2) /\ wf[e2].type # "createUserWorkflow"

\* maximumAttempts of the documented activity options.
DocumentedMaximumAttempts == 5

\* C10: an activity that keeps failing is attempted at most about five times
\* (after the fifth failed attempt the execution fails instead of a sixth
\* attempt being scheduled).
C10_BoundedAttempts == \A e \in Execs : wf[e].attempt <= DocumentedMaximumAttempts

\* An activity attempt of execution e fails in this step, other than with a
\* uniqueness violation of createUserActivity.
AttemptFails(e) ==
  /\ wf'[e].failures = wf[e].failures + 1
  /\ ~(wf[e].pc = "createUserActivity" /\ wf'[e].err = "SequelizeUniqueConstraintError")

\* C11: a step in which an activity attempt fails (other than a uniqueness
\* violation on create) gives the execution no outcome: the execution stays at
\* the same activity, either running with the next attempt scheduled or failed,
\* and carries the error; and a call whose execution ended failed never returns
\* a value, it can only reject.
C11_FailuresPropagate ==
  [][/\ \A e \in Execs :
          AttemptFails(e) =>
            /\ wf'[e].result = NoResult
            /\ wf'[e].status \in {"running", "failed"}
            /\ wf'[e].pc = wf[e].pc
            /\ wf'[e].err # "none"
     /\ \A c \in Calls :
          calls[c].handle # 0 /\ wf[calls[c].handle].status = "failed" =>
            /\ wf[calls[c].handle].result = NoResult
            /\ calls'[c].pc \in {"result", "rejected"}
            /\ calls'[c].value = NoResult]_vars

\* An activity attempt failed with a connection error and is being retried,
\* and a call has rejected because its execution ended failed.
C11_Witness ==
  /\ \E e \in Running : wf[e].attempt = 2 /\ wf[e].err = "SequelizeConnectionError"
  /\ \E c \in Calls : calls[c].err = "WorkflowFailedError"

\* Executions whose outcome is a business outcome of a lookup: duplicate
\* (409) or not-found (404).
BusinessOutcome(e) == wf[e].result.code \in {409, 404}

\* The lookup activity behind a business outcome.
LookupOf(type) ==
  IF type = "createUserWorkflow" THEN "checkDuplicateByMobileActivity" ELSE "getUserActivity"

\* C12: an execution whose result is duplicate (409) or not-found (404) has
\* completed, its lookup activity (checkDuplicateByMobileActivity or
\* getUserActivity) completed exactly once and is the only activity it ran,
\* the step that produced the outcome counted no failed attempt, and from
\* then on the execution never changes: no retry is scheduled.
C12_BusinessOutcomesNotRetried ==
  [][\A e \in Execs :
       /\ BusinessOutcome(e) =>
            /\ Completed(e)
            /\ wf[e].done = <<LookupOf(wf[e].type)>>
            /\ wf'[e] = wf[e]
       /\ wf'[e].result.code \in {409, 404} /\ ~BusinessOutcome(e) =>
            /\ wf'[e].failures = wf[e].failures
            /\ wf'[e].attempt = wf[e].attempt
            /\ wf'[e].status = "completed"]_vars

\* A create has ended with 409 and a get with 404, one of them after a failed
\* attempt of its lookup.
C12_Witness ==
  \E e1, e2 \in Execs :
    /\ wf[e1].result.code = 409 /\ wf[e2].result.code = 404
    /\ wf[e1].failures > 0 \/ wf[e2].failures > 0

\* C13: no two running executions carry the same workflow-id; a call whose
\* start was refused as already started has no execution of its own, and the
\* executions are exactly those of the calls whose start was accepted, so the
\* refused submission runs no activity and the store sees one execution only.
C13_OneRunPerWorkflowId ==
  /\ \A e1, e2 \in Running : wf[e1].wid = wf[e2].wid => e1 = e2
  /\ \A c \in Calls :
       calls[c].err = "WorkflowExecutionAlreadyStartedError" =>
         /\ calls[c].handle = 0
         /\ calls[c].value = NoResult
         /\ \E e \in Execs : wf[e].wid = calls[c].wid
  /\ \A e \in Execs : Cardinality({c \in Calls : calls[c].handle = e}) = 1
  /\ \A c \in Calls : calls[c].handle \in Execs \cup {0}

\* A create was submitted twice under one workflow-id: the second start was
\* refused and the first execution has inserted its record.
C13_Witness ==
  \E c \in Calls, e \in Creates :
    /\ calls[c].err = "WorkflowExecutionAlreadyStartedError"
    /\ wf[e].wid = calls[c].wid
    /\ Cardinality(wf[e].ins) = 1
    /\ Len(wf) = 1

\* The calls that have built a workflow-id and submitted a start.
Submitted == {c \in Calls : calls[c].starts > 0}

\* C14: a call's workflow-id is the operation name, the natural key (mobile
\* for create, id for get and update, none for list) and the submission time;
\* any two distinct calls have different workflow-ids, and no call is refused
\* by the engine as already started.
C14_DistinctWorkflowIds ==
  /\ \A c \in Submitted :
       \E now \in 0..MaxClock : calls[c].wid = workflowId(calls[c].type, calls[c].input, now)
  /\ \A c1, c2 \in Submitted : c1 # c2 => calls[c1].wid # calls[c2].wid
  /\ \A c \in Calls : calls[c].err # "WorkflowExecutionAlreadyStartedError"

\* C15: every call has submitted at most one workflow start; a call never
\* submits a start after its first, and once it has rejected (at getClient,
\* at the start or at the result) or returned it does nothing more.
C15_NoDispatchRetry ==
  [][/\ \A c \in 1..Len(calls') : calls'[c].starts <= 1
     /\ \A c \in Calls :
          /\ calls[c].starts = 1 => calls'[c].starts = 1
          /\ calls[c].pc \in {"rejected", "returned"} => calls'[c] = calls[c]
     /\ Len(wf') <= Cardinality({c \in 1..Len(calls') : calls'[c].starts = 1})]_vars

\* One call rejected because its start failed, another because waiting for
\* the result failed while its execution was still running.
C15_Witness ==
  \E c1, c2 \in Calls :
    /\ calls[c1].pc = "rejected" /\ calls[c1].err = "TransportError"
    /\ calls[c1].starts = 1 /\ calls[c1].handle = 0
    /\ calls[c2].pc = "rejected" /\ calls[c2].err = "TransportError"
    /\ calls[c2].handle # 0 /\ calls[c2].handle \in Running

\* C16: a call that has returned belongs to an execution that has completed,
\* and the value it returned is that execution's outcome as the workflow
\* returned it; while the execution is running the call has not returned, and
\* no call holds a value without having returned.
C16_ReturnsTerminalOutcome ==
  \A c \in Calls :
    /\ calls[c].pc = "returned" =>
         /\ calls[c].handle \in Execs
         /\ Completed(calls[c].handle)
         /\ calls[c].value = wf[calls[c].handle].result
         /\ calls[c].value # NoResult
    /\ calls[c].handle \in Running => calls[c].pc \in {"result", "rejected"}
    /\ calls[c].value # NoResult => calls[c].pc = "returned"

\* A create call has returned 201 and a get call has returned 404.
C16_Witness ==
  \E c1, c2 \in Calls :
    /\ calls[c1].pc = "returned" /\ calls[c1].value.code = 201
    /\ calls[c2].pc = "returned" /\ calls[c2].value.code = 404

\* The activities each workflow takes from proxyActivities and calls.
ActivitiesOf(type) ==
  CASE type = "createUserWorkflow" -> {"checkDuplicateByMobileActivity", "createUserActivity"}
    [] type = "updateUserWorkflow" -> {"updateUserActivity"}
    [] type = "getUserWorkflow" -> {"getUserActivity"}
    [] type = "getAllUsersWorkflow" -> {"getAllUsersActivity"}

WorkflowTypes ==
  {"createUserWorkflow", "updateUserWorkflow", "getUserWorkflow", "getAllUsersWorkflow"}

\* C17: every execution was submitted on USER_QUEUE under one of the four
\* workflow type names and only ever waits for an activity of its workflow;
\* a worker that is running is registered on that same queue with all four
\* workflow types and with every activity those workflows call, so every
\* running execution is served by it.
C17_OneQueueAllRegistered ==
  /\ \A e \in Execs :
       /\ wf[e].taskQueue = USER_QUEUE
       /\ wf[e].type \in WorkflowTypes
       /\ wf[e].pc \in ActivitiesOf(wf[e].type) \cup {"done"}
  /\ worker.pc = "running" =>
       /\ worker.taskQueue = USER_QUEUE
       /\ WorkflowTypes \subseteq worker.workflows
       /\ \A t \in WorkflowTypes : ActivitiesOf(t) \subseteq worker.activities
       /\ \A e \in Running : Polls(wf[e])

\* The running worker has served a create through both of its activities and
\* an execution of another workflow type.
C17_Witness ==
  /\ worker.pc = "running"
  /\ \E e1, e2 \in Execs :
       /\ wf[e1].done = <<"checkDuplicateByMobileActivity", "createUserActivity">>
       /\ wf[e2].type # "createUserWorkflow" /\ Completed(e2)

\* A get of the id that create c returned, reading the record c inserted as c
\* left it (so after the create, with no update of the record in between).
GetAfterCreate(c, g) ==
  /\ c \in Creates /\ g \in Gets
  /\ Completed(c) /\ wf[c].result.code = 201
  /\ Completed(g) /\ wf[g].args = wf[c].result.id
  /\ wf[g].pre \cap wf[c].ins # {}

\* C18: when a create returned 201 with id i for submitted (name, email,
\* mobile), a later get of i with no update in between returns code 200 with
\* a record whose id is i and whose name, email and mobile are the submitted
\* values.
C18_RoundTrip ==
  \A c, g \in Execs :
    GetAfterCreate(c, g) =>
      wf[g].result =
        [code |-> 200,
         user |-> [id |-> wf[c].result.id, mobile |-> wf[c].input.mobile,
                   name |-> wf[c].input.name, email |-> wf[c].input.email]]

\* A create has returned 201 and a get of the returned id has completed on a
\* table that holds another record as well.
C18_Witness ==
  \E c, g \in Execs : GetAfterCreate(c, g) /\ Cardinality(users) > 1

\* list(limit=1, offset=0) and list(limit=1, offset=1) have both completed
\* over the same two-record store.
TwoPages(l1, l2) ==
  /\ l1 \in Lists /\ l2 \in Lists
  /\ Completed(l1) /\ Completed(l2)
  /\ wf[l1].used = [limit |-> 1, offset |-> 0]
  /\ wf[l2].used = [limit |-> 1, offset |-> 1]
  /\ wf[l1].pre = wf[l2].pre
  /\ Cardinality(wf[l1].pre) = 2

\* C19: the two pages hold one record each, the two records are different and
\* together they are the store's two records, the first page holding the one
\* with the smaller id.
C19_PaginationPartitions ==
  \A l1, l2 \in Execs :
    TwoPages(l1, l2) =>
      /\ Len(wf[l1].result.users) = 1
      /\ Len(wf[l2].result.users) = 1
      /\ wf[l1].result.users[1] # wf[l2].result.users[1]
      /\ {wf[l1].result.users[1], wf[l2].result.users[1]} = wf[l1].pre
      /\ wf[l1].result.users[1].id < wf[l2].result.users[1].id

\* C20: once creating the worker has failed or the run loop has rejected, the
\* process has logged the error and exited with a non-zero code; a process
\* that has not exited is either still starting or running registered on its
\* queue, and it exits for no other reason.
C20_WorkerFailsFast ==
  /\ worker.err # "none" =>
       /\ worker.pc = "exited"
       /\ worker.exitCode = 1
       /\ worker.log # <<>> /\ worker.log[Len(worker.log)] = "error"
  /\ worker.err = "none" =>
       /\ worker.exitCode = -1
       /\ worker.pc \in {"starting", "running"}
       /\ worker.pc = "running" =>
            worker.taskQueue = USER_QUEUE /\ worker.workflows # {} /\ worker.activities # {}

\* The run loop rejected while an execution was in progress, and the process
\* has exited.
C20_Witness ==
  /\ worker.err = "worker.run" /\ worker.pc = "exited"
  /\ \E e \in Running : wf[e].done # <<>>

\* Environments a replay can run in: any time, the table as it is now or empty.
ReplayEnvs == [now : 0..MaxClock, tbl : {users, {}}]

LevelOf(method) == IF method = "trace" THEN "debug" ELSE method

\* C22: every call of trace, debug, info, warn or error on a sink has made
\* exactly one call on the underlying logger, with the given message, at the
\* same-named level (debug for trace), and with the sink's bound fields
\* overridden by the call's attributes as metadata, plus temporalLevel =
\* 'TRACE' for trace.
C22_SinkForwards ==
  /\ Len(logger.records) = Len(logger.calls)
  /\ \A i \in 1..Len(logger.calls) :
       i <= Len(logger.records) =>
         LET c == logger.calls[i]
             r == logger.records[i]
             bound == logger.sinks[c.sink].bound
         IN  /\ r.level = LevelOf(c.method)
             /\ r.message = c.message
             /\ \A k \in DOMAIN r.meta :
                  r.meta[k] = IF c.method = "trace" /\ k = "temporalLevel" THEN "TRACE"
                              ELSE IF k \in DOMAIN c.attrs THEN c.attrs[k] ELSE bound[k]
             /\ DOMAIN r.meta = DOMAIN bound \cup DOMAIN c.attrs
                                  \cup (IF c.method = "trace" THEN {"temporalLevel"} ELSE {})

\* trace was called with attributes that override a bound field, and another
\* method was called too.
C22_Witness ==
  \E i, j \in 1..Len(logger.calls) :
    /\ logger.calls[i].method = "trace"
    /\ logger.sinks[logger.calls[i].sink].bound = [component |-> "a"]
    /\ logger.calls[i].attrs = [component |-> "b", temporalLevel |-> "b"]
    /\ logger.calls[j].method = "error"

\* C23: every sink still holds the fields it was created with; a child's
\* fields are its parent's fields overridden by the extra fields given to
\* child, at any depth; and every record carries the creation-time fields of
\* the sink it was emitted on, whatever children were created or used before.
C23_ChildLeavesParent ==
  /\ \A s \in Sinks :
       /\ logger.heap[logger.sinks[s].ref] = logger.sinks[s].bound
       /\ logger.sinks[s].parent # 0 =>
            logger.sinks[s].bound =
              Spread(logger.sinks[logger.sinks[s].parent].bound, logger.sinks[s].extra)
  /\ \A i \in 1..Len(logger.calls) :
       i <= Len(logger.records) =>
         \A k \in DOMAIN logger.sinks[logger.calls[i].sink].bound
                 \ (DOMAIN logger.calls[i].attrs \cup {"temporalLevel"}) :
           /\ k \in DOMAIN logger.records[i].meta
           /\ logger.records[i].meta[k] = logger.sinks[logger.calls[i].sink].bound[k]

\* A sink has a child and a grandchild that override its fields; the child
\* was used, and the first sink emitted a record afterwards.
C23_Witness ==
  /\ Len(logger.sinks) = 3 /\ Len(logger.calls) = 2
  /\ logger.sinks[2].parent = 1 /\ logger.sinks[3].parent = 2
  /\ logger.sinks[1].bound = [component |-> "a"]
  /\ logger.sinks[2].bound # logger.sinks[1].bound
  /\ logger.sinks[3].bound # logger.sinks[2].bound
  /\ logger.calls[1].sink = 2 /\ logger.calls[2].sink = 1
  /\ logger.calls[2].attrs = [k \in {} |-> ""]

Responded == {c \in Calls : calls[c].response # NoResponse}

\* C24: every response a handler has sent carries the code of the outcome
\* its dispatch call returned as HTTP status; create's 409 response carries
\* the outcome's message and id and its 201 response the message, id and
\* user; get's 404 response carries the outcome's message and its other
\* responses the user as body; list's body is the page and update's body the
\* success flag and id.
C24_StatusIsOutcomeCode ==
  \A c \in Responded :
    LET out == calls[c].value
        res == calls[c].response
    IN  /\ calls[c].pc = "returned"
        /\ res.status = out.code
        /\ calls[c].type = "createUserWorkflow" =>
             /\ res.status = 409 => res.body = [message |-> out.message, id |-> out.id]
             /\ res.status = 201 =>
                  res.body = [message |-> out.message, id |-> out.id, user |-> out.user]
        /\ calls[c].type = "getUserWorkflow" =>
             /\ res.status = 404 => res.body = [message |-> out.message]
             /\ res.status # 404 => res.body = out.user
        /\ calls[c].type = "getAllUsersWorkflow" => res.body = out.users
        /\ calls[c].type = "updateUserWorkflow" =>
             res.body.success = out.success /\ res.body.id = out.id

\* A create has been answered 409 and a get 404.
C24_Witness ==
  \E c1, c2 \in Responded :
    /\ calls[c1].type = "createUserWorkflow" /\ calls[c1].response.status = 409
    /\ calls[c2].type = "getUserWorkflow" /\ calls[c2].response.status = 404

\* C25: an update of an id that no user record had when the update ran is
\* answered with 404 and the message 'User not found'.
C25_UpdateMissingIs404 ==
  \A c \in Responded :
    calls[c].type = "updateUserWorkflow" /\ wf[calls[c].handle].pre = {} =>
      /\ calls[c].response.status = 404
      /\ calls[c].response.body.message = "User not found"

\* The duplicate check of execution x has completed with a not-found result.
CheckedNotFound(x) ==
  /\ Len(x.hist) >= 1
  /\ x.cmds[1].activity = "checkDuplicateByMobileActivity"
  /\ x.hist[1] = Null

\* C26: a createUserWorkflow execution awaits or has run createUserActivity,
\* or has inserted a record, only if its duplicate check completed before
\* with a not-found result; an insert happens only in a step taken at
\* createUserActivity after such a check; and an execution whose check
\* returned a record never reaches createUserActivity.
C26_CreateAfterCheck ==
  [][\A e \in Creates :
       /\ (wf[e].pc = "createUserActivity" \/ wf[e].ins # {}
             \/ \E i \in 1..Len(wf[e].cmds) : wf[e].cmds[i].activity = "createUserActivity")
            => CheckedNotFound(wf[e])
       /\ wf'[e].ins # wf[e].ins =>
            wf[e].pc = "createUserActivity" /\ CheckedNotFound(wf[e])
       /\ wf[e].pc = "checkDuplicateByMobileActivity" => wf[e].hist = <<>> /\ wf[e].ins = {}
       /\ (Len(wf[e].hist) >= 1 /\ wf[e].hist[1] # Null) =>
            wf[e].pc = "done" /\ wf[e].ins = {} /\ Len(wf[e].cmds) = 1]_vars

\* One create has inserted after a not-found check; another was stopped by
\* a check that returned a record.
C26_Witness ==
  \E e1, e2 \in Creates :
    /\ wf[e1].ins # {} /\ CheckedNotFound(wf[e1])
    /\ Len(wf[e2].hist) = 1 /\ wf[e2].hist[1] # Null

\* C27: under fair scheduling every execution a dispatch call created
\* eventually closes and the call eventually returns or rejects, also when
\* the activity fails on every attempt.
C27_EventuallyTerminal ==
  /\ \A e \in 1..MaxExec : (e \in Running) ~> (e \in Execs /\ e \notin Running)
  /\ \A c \in 1..MaxCalls :
       Awaiting(c) ~> (c \in Calls /\ calls[c].pc \in {"returned", "rejected"})

\* C28: no two live user records share a mobile, whatever creates and
\* updates have run.
C28_LiveMobilesDistinct ==
  \A r1, r2 \in Live(users) : r1.mobile = r2.mobile => r1.id = r2.id

\* An execution on a read-only path: getUserWorkflow, getAllUsersWorkflow,
\* or createUserWorkflow up to the outcome of its duplicate pre-check.
ReadOnlyPath(x) ==
  \/ x.type \in {"getUserWorkflow", "getAllUsersWorkflow"}
  \/ x.type = "createUserWorkflow" /\ x.pc = "checkDuplicateByMobileActivity"

\* C29: no step of an execution on a read-only path, whether the attempt
\* completes or fails and is retried, inserts or modifies a user record; a
\* create that ended with 409 has taken only such steps.
C29_ReadPathsLeaveStore ==
  [][\A e \in Execs :
       /\ ReadOnlyPath(wf[e]) /\ wf'[e] # wf[e] => users' = users /\ seq' = seq
       /\ wf'[e].type = "createUserWorkflow" /\ wf'[e].result.code = 409 =>
            /\ wf'[e].ins = {}
            /\ wf[e].result.code # 409 => ReadOnlyPath(wf[e])]_vars

C29_Witness ==
  /\ \E e \in Gets : wf[e].status = "completed" /\ wf[e].attempt >= 2 /\ wf[e].pre # {}
  /\ \E e \in Creates :
       wf[e].status = "completed" /\ wf[e].result.code = 409 /\ wf[e].attempt >= 2

\* The calls that enter their dispatch function in this step.
Entering == (Len(calls) + 1)..Len(calls')

====
